---- MODULE Spec2Model ----
(***************************************************************************)
(* A model of threaded_mc/common_mc.c: the shared pieces of the adaptive   *)
(* Monte Carlo estimator (parameter parsing, batch execution, result       *)
(* aggregation, the convergence test) and of the per-worker loop that      *)
(* drives them.  C doubles are modelled as binary floating-point numbers   *)
(* with a Precision-bit significand, rounded to nearest, ties to even.     *)
(***************************************************************************)
EXTENDS Integers, Sequences, FiniteSets, TLC

VARIABLES
  argv,      \* process_args: the option list still to be read by getopt
  optind,    \* process_args: number of argv entries consumed
  nthreads,  \* process_args: the local nthreads
  apc,       \* process_args: "getopt" | "returned" | "exited"
  param,     \* mc_param_t of each run
  shared,    \* the SharedResult (mc_result_t) of each run
  merged,    \* per run, the batches merged so far, in merge order (history)
  parts,     \* a collection of PartialResults to merge (sequential driver)
  todo,      \* indices of parts not merged yet
  ret,       \* value returned by the is_converged call of the last step, -1 if none
  zdiv,      \* TRUE once is_converged has evaluated a division by zero
  pc,        \* per worker: position in the worker loop
  mt,        \* per worker: generator state, as the number of draws made
  batch,     \* per worker: its mc_result_t batch
  loc,       \* per worker: locals of run_trials (t, sum_X, sum_X2)
  reg,       \* per worker: the field mc_result_update is at, and the values it loaded
  start,     \* per worker: value of mt when run_trials was entered (history)
  done,      \* per worker: result of its last is_converged call
  lock,      \* per run: the worker holding the aggregation lock, 0 if free
  stop,      \* per run: the process-wide stop flag
  tape,      \* per seed: the values a generator created from it has produced
  run,       \* per worker: the run it belongs to
  seed       \* per worker: the seed of its generator

vars == <<argv, optind, nthreads, apc, param, shared, merged, parts, todo,
          ret, zdiv, pc, mt, batch, loc, reg, start, done, lock, stop, tape,
          run, seed>>
argsVars == <<argv, optind, nthreads, apc>>
seqVars == <<parts, todo>>
workerVars == <<pc, mt, batch, loc, reg, start, done, lock, stop, tape, run, seed>>

(***************************************************************************)
(* Bounds of the model.                                                    *)
(***************************************************************************)
Precision == 3   \* bits in the significand of a model double
MaxParts == 3    \* PartialResults in a collection of the sequential driver
MaxDraws == 4    \* draws a stream can make before the model stops it
MaxArgs == 2     \* options on a command line

(***************************************************************************)
(* double arithmetic                                                       *)
(***************************************************************************)
Pow2(n) == 2 ^ n
Abs(i) == IF i < 0 THEN -i ELSE i
Sgn(i) == IF i < 0 THEN -1 ELSE IF i > 0 THEN 1 ELSE 0
Min(a, b) == IF a < b THEN a ELSE b

\* A finite double is m * 2^e with 2^(Precision-1) <= |m| < 2^Precision, or 0.
Num(m, e) == [k |-> "num", m |-> m, e |-> e]
Zero == Num(0, 0)
NaN == [k |-> "nan", m |-> 0, e |-> 0]
Inf(s) == [k |-> "inf", m |-> s, e |-> 0]

\* The double nearest to s * (a / d) * 2^e, a > 0, d > 0: round to nearest, ties to even.
RECURSIVE RoundMag(_, _, _, _)
RoundMag(s, a, d, e) ==
  IF a >= d * Pow2(Precision) THEN RoundMag(s, a, 2 * d, e + 1)
  ELSE IF a < d * Pow2(Precision - 1) THEN RoundMag(s, 2 * a, d, e - 1)
  ELSE LET q == a \div d
           r == a % d
           up == 2 * r > d \/ (2 * r = d /\ q % 2 = 1)
           m == IF up THEN q + 1 ELSE q
       IN IF m = Pow2(Precision) THEN Num(s * Pow2(Precision - 1), e + 1)
          ELSE Num(s * m, e)

Round(n, d, e) == IF n = 0 THEN Zero ELSE RoundMag(Sgn(n), Abs(n), d, e)

\* The exact numerator of finite a on the scale 2^e0, e0 <= a.e.
Scaled(a, e0) == a.m * Pow2(a.e - e0)

FAdd(a, b) ==
  IF a.k = "nan" \/ b.k = "nan" THEN NaN
  ELSE IF a.k = "inf" /\ b.k = "inf" THEN IF a.m = b.m THEN a ELSE NaN
  ELSE IF a.k = "inf" THEN a
  ELSE IF b.k = "inf" THEN b
  ELSE IF a.m = 0 THEN b
  ELSE IF b.m = 0 THEN a
  ELSE LET e0 == Min(a.e, b.e) IN Round(Scaled(a, e0) + Scaled(b, e0), 1, e0)

FNeg(a) == IF a.k = "nan" THEN a ELSE [a EXCEPT !.m = -a.m]

FSub(a, b) == FAdd(a, FNeg(b))

FMul(a, b) ==
  IF a.k = "nan" \/ b.k = "nan" THEN NaN
  ELSE IF a.k = "inf" \/ b.k = "inf"
       THEN IF a.m = 0 \/ b.m = 0 THEN NaN ELSE Inf(Sgn(a.m) * Sgn(b.m))
  ELSE Round(a.m * b.m, 1, a.e + b.e)

FDiv(a, b) ==
  IF a.k = "nan" \/ b.k = "nan" THEN NaN
  ELSE IF a.k = "inf" THEN IF b.k = "inf" THEN NaN
                           ELSE Inf(a.m * (IF b.m < 0 THEN -1 ELSE 1))
  ELSE IF b.k = "inf" THEN Zero
  ELSE IF b.m = 0 THEN IF a.m = 0 THEN NaN ELSE Inf(Sgn(a.m))
  ELSE Round(a.m * Sgn(b.m), Abs(b.m), a.e - b.e)

\* a < b; every comparison with a NaN is false.
FLt(a, b) ==
  IF a.k = "nan" \/ b.k = "nan" THEN FALSE
  ELSE IF a.k = "inf" THEN a.m < 0 /\ ~(b.k = "inf" /\ b.m < 0)
  ELSE IF b.k = "inf" THEN b.m > 0
  ELSE IF a.m = 0 \/ b.m = 0 \/ Sgn(a.m) # Sgn(b.m) THEN a.m < b.m
  ELSE LET e0 == Min(a.e, b.e) IN Scaled(a, e0) < Scaled(b, e0)

\* Conversion of a long or an int to double.
FromInt(n) == Round(n, 1, 0)

\* The double nearest to the fraction n / d.
Frac(n, d) == Round(n, d, 0)

(***************************************************************************)
(* mc_param_t, mc_result_t                                                 *)
(***************************************************************************)
Result(sx, sx2, n) == [sum_X |-> sx, sum_X2 |-> sx2, ntrials |-> n]

mc_result_init == Result(Zero, Zero, 0)

\* The fields of mc_result_t in the order mc_result_update adds them.
Fields == <<"sum_X", "sum_X2", "ntrials">>

\* result->f += batch->f, as the value stored from the value loaded
\* (add_field_assigns_count: the count assigned with = instead of +=).
add_field_assigns_count(f, old, b) == IF f = "ntrials" THEN b.ntrials ELSE FAdd(old, b[f])
add_field(f, old, b) == IF f = "ntrials" THEN old + b.ntrials ELSE FAdd(old, b[f])

update_field(result, f, b) == [result EXCEPT ![f] = add_field(f, @, b)]

\* mc_result_update(result, batch): the two objects after the call.
mc_result_update(result, b) ==
  [result |-> update_field(update_field(update_field(result, Fields[1], b),
                                        Fields[2], b), Fields[3], b),
   batch |-> b]

\* The quotient is_converged compares with rtol*rtol, and its divisor.
conv_divisor(result) ==
  LET ntrials == FromInt(result.ntrials)
      EX == FDiv(result.sum_X, ntrials)
  IN FMul(EX, EX)

\* is_converged, and is_converged_at_maxtrials: the budget test written >=.
is_converged_at_maxtrials(p, result) ==
  LET rtol == p.rtol
      maxtrials == p.maxtrials
      ntrials == FromInt(result.ntrials)
      EX == FDiv(result.sum_X, ntrials)
      EX2 == FDiv(result.sum_X2, ntrials)
      varX == FSub(EX2, FMul(EX, EX))
      varEst == FDiv(varX, ntrials)
  IN IF FLt(FDiv(varEst, FMul(EX, EX)), FMul(rtol, rtol))
        \/ ~FLt(ntrials, FromInt(maxtrials))
     THEN 1 ELSE 0
is_converged(p, result) ==
  LET rtol == p.rtol
      maxtrials == p.maxtrials
      ntrials == FromInt(result.ntrials)
      EX == FDiv(result.sum_X, ntrials)
      EX2 == FDiv(result.sum_X2, ntrials)
      varX == FSub(EX2, FMul(EX, EX))
      varEst == FDiv(varX, ntrials)
  IN IF FLt(FDiv(varEst, FMul(EX, EX)), FMul(rtol, rtol))
        \/ FLt(FromInt(maxtrials), ntrials)
     THEN 1 ELSE 0

\* Whether that call divides by zero: by ntrials, or by EX*EX.
divides_by_zero(result) ==
  result.ntrials = 0 \/ conv_divisor(result) = Zero

\* One iteration of the loop of run_trials on the draw X
\* (run_trials_body_unsquared: sum_X2 += X instead of X*X).
run_trials_body_unsquared(l, X) ==
  [t |-> l.t + 1, sum_X |-> FAdd(l.sum_X, X), sum_X2 |-> FAdd(l.sum_X2, X)]
run_trials_body(l, X) ==
  [t |-> l.t + 1, sum_X |-> FAdd(l.sum_X, X),
   sum_X2 |-> FAdd(l.sum_X2, FMul(X, X))]

\* The locals of run_trials on entry, and the result it stores on exit.
run_trials_entry == [t |-> 0, sum_X |-> Zero, sum_X2 |-> Zero]

run_trials_exit(l, nbatch) == Result(l.sum_X, l.sum_X2, nbatch)

(***************************************************************************)
(* The generator and the inputs of the model                               *)
(***************************************************************************)
\* Values genrand can return: uniform draws of [0,1).
DrawSet == {Zero, Frac(1, 4), Frac(1, 2)}

\* Batch sizes and parameter values process_args can return.
BatchSizes == {1, 2}

Param(rtol, maxtrials, nbatch) ==
  [verbose |-> 1, rtol |-> rtol, maxtrials |-> maxtrials, nbatch |-> nbatch]

ParamSet ==
  {Param(rtol, maxtrials, nbatch) :
     rtol \in {Zero, Frac(1, 2)}, maxtrials \in {2, 3}, nbatch \in BatchSizes}

\* The parameters of the runs of the worker loop.
RunParams == {p \in ParamSet : p.maxtrials = 3}

\* run_trials as a whole on the draws ds: its loop, then the stores to result.
RECURSIVE run_trials_loop(_, _)
run_trials_loop(l, ds) ==
  IF ds = <<>> THEN l ELSE run_trials_loop(run_trials_body(l, Head(ds)), Tail(ds))

run_trials(ds) == run_trials_exit(run_trials_loop(run_trials_entry, ds), Len(ds))

\* The PartialResults run_trials can produce.
PartialSet ==
  {run_trials(ds) : ds \in UNION {[1..n -> DrawSet] : n \in BatchSizes}}

RECURSIVE SetToSeq(_)
SetToSeq(S) ==
  IF S = {} THEN <<>>
  ELSE LET x == CHOOSE y \in S : TRUE IN <<x>> \o SetToSeq(S \ {x})

PartialList == SetToSeq(PartialSet)

\* Collections of PartialResults, one sequence for each multiset.
Collections ==
  LET K == Len(PartialList)
      idx == UNION {[1..n -> 1..K] : n \in 1..MaxParts}
  IN {[i \in DOMAIN s |-> PartialList[s[i]]] :
        s \in {q \in idx : \A i \in 1..(Len(q) - 1) : q[i] <= q[i + 1]}}

\* What an uninitialised mc_result_t may hold.
Garbage == {mc_result_init, Result(Frac(3, 4), Zero, 7)}

(***************************************************************************)
(* Sequential driver: a collection of PartialResults merged one at a time  *)
(* into a zeroed SharedResult, with is_converged called in between.        *)
(***************************************************************************)
NoWorkers ==
  /\ pc = <<>> /\ mt = <<>> /\ batch = <<>> /\ loc = <<>> /\ reg = <<>>
  /\ start = <<>> /\ done = <<>> /\ run = <<>> /\ seed = <<>>
  /\ lock = <<>> /\ stop = <<>> /\ tape = <<>>

NoArgs == argv = <<>> /\ optind = 0 /\ nthreads = 0 /\ apc = "none"

InitMerge ==
  /\ NoArgs /\ NoWorkers
  /\ param \in {<<p>> : p \in {q \in ParamSet : q.nbatch = 1}}
  /\ shared = <<mc_result_init>>
  /\ merged = <<<<>>>>
  /\ parts \in Collections
  /\ todo = DOMAIN parts
  /\ ret = -1
  /\ zdiv = FALSE

\* mc_result_update(&shared, &parts[i])
SeqUpdate(i) ==
  /\ i \in todo
  /\ LET u == mc_result_update(shared[1], parts[i])
     IN /\ shared' = [shared EXCEPT ![1] = u.result]
        /\ parts' = [parts EXCEPT ![i] = u.batch]
        /\ merged' = [merged EXCEPT ![1] = Append(@, parts[i])]
  /\ todo' = todo \ {i}
  /\ ret' = -1
  /\ UNCHANGED <<param, zdiv, argsVars, workerVars>>

\* is_converged(&param, &shared), once a batch has been merged
SeqCheck ==
  /\ shared[1].ntrials # 0
  /\ ret' = is_converged(param[1], shared[1])
  /\ zdiv' = (zdiv \/ divides_by_zero(shared[1]))
  /\ UNCHANGED <<param, shared, merged, parts, todo, argsVars, workerVars>>

NextMerge == (\E i \in 1..MaxParts : SeqUpdate(i)) \/ SeqCheck

SpecMerge == InitMerge /\ [][NextMerge]_vars

(***************************************************************************)
(* process_args: the command line, read option by option with getopt       *)
(***************************************************************************)
\* The hard cap on the number of worker threads.
MAX_MC_THREADS == 32

\* The largest int (a long beyond it is represented by it).
INT_MAX == (Pow2(30) - 1) + Pow2(30)

Digits == <<"0", "1", "2", "3", "4", "5", "6", "7", "8", "9">>

IsDigit(c) == \E i \in DOMAIN Digits : Digits[i] = c

DigitVal(c) == (CHOOSE i \in DOMAIN Digits : Digits[i] = c) - 1

\* The run of digits at the head of s: its value v (while it fits an int), whether
\* it does not (ovf), the number of digits (n), and what follows (rest).
RECURSIVE ParseDigits(_, _, _, _)
ParseDigits(s, acc, ovf, n) ==
  IF s = <<>> \/ ~IsDigit(Head(s))
  THEN [v |-> acc, ovf |-> ovf, n |-> n, rest |-> s]
  ELSE LET d == DigitVal(Head(s))
       IN IF ovf \/ acc > (INT_MAX - d) \div 10
          THEN ParseDigits(Tail(s), acc, TRUE, n + 1)
          ELSE ParseDigits(Tail(s), 10 * acc + d, FALSE, n + 1)

RECURSIVE SkipSpace(_)
SkipSpace(s) == IF s # <<>> /\ Head(s) = " " THEN SkipSpace(Tail(s)) ELSE s

Negative(s) == SkipSpace(s) # <<>> /\ Head(SkipSpace(s)) = "-"

Unsigned(s) ==
  LET t == SkipSpace(s)
  IN IF t # <<>> /\ Head(t) \in {"-", "+"} THEN Tail(t) ELSE t

\* What an int conversion may yield for a value that does not fit an int.
IntSamples == {-1, 0, 1, MAX_MC_THREADS, MAX_MC_THREADS + 1, INT_MAX}

\* atoi(s): blanks, a sign, digits; undefined when the value is no int.
atoi(s) ==
  LET r == ParseDigits(Unsigned(s), 0, FALSE, 0)
  IN IF r.ovf THEN IntSamples ELSE {IF Negative(s) THEN -r.v ELSE r.v}

\* atol(s): as atoi, to a long.
atol(s) ==
  LET r == ParseDigits(Unsigned(s), 0, FALSE, 0)
  IN {IF Negative(s) THEN -r.v ELSE r.v}

\* atof(s): blanks, a sign, digits, and a fraction after a point.
atof(s) ==
  LET i == ParseDigits(Unsigned(s), 0, FALSE, 0)
      f == IF i.rest # <<>> /\ Head(i.rest) = "."
           THEN ParseDigits(Tail(i.rest), i.v, i.ovf, 0)
           ELSE [v |-> i.v, ovf |-> i.ovf, n |-> 0, rest |-> i.rest]
  IN Round(IF Negative(s) THEN -f.v ELSE f.v, 10 ^ f.n, 0)

\* mc_param_init
mc_param_init ==
  [verbose |-> 1, rtol |-> Frac(1, 10000), maxtrials |-> 10000000, nbatch |-> 5000]

\* An argv entry as getopt reads it: an option of "p:t:n:b:v:" with its argument,
\* an option without its argument, an unknown option, or a non-option word.
Opt(c, a) == [kind |-> "opt", c |-> c, arg |-> a]

Tokens ==
  {Opt("p", a) : a \in {<<"4">>, <<"0">>, <<"-", "1">>, <<"3", "3">>, <<"x">>,
                         <<"4", "2", "9", "4", "9", "6", "7", "2", "9", "7">>}}
  \cup {Opt("t", a) : a \in {<<"0">>, <<"0", ".", "5">>, <<"-", "1">>}}
  \cup {Opt("n", a) : a \in {<<"3">>, <<"0">>}}
  \cup {Opt("b", a) : a \in {<<"2">>, <<"0">>}}
  \cup {Opt("v", a) : a \in {<<"0">>}}
  \cup {[kind |-> "noarg", c |-> "p", arg |-> <<>>],
        [kind |-> "unknown", c |-> "q", arg |-> <<>>],
        [kind |-> "word", c |-> "", arg |-> <<"f">>]}

InitArgs ==
  /\ argv \in UNION {[1..n -> Tokens] : n \in 0..MaxArgs}
  /\ optind = 0
  /\ nthreads = 0
  /\ apc = "entry"
  /\ param = <<[verbose |-> 0, rtol |-> NaN, maxtrials |-> -1, nbatch |-> 0]>>
  /\ shared = <<mc_result_init>> /\ merged = <<<<>>>>
  /\ parts = <<>> /\ todo = {}
  /\ ret = -1 /\ zdiv = FALSE
  /\ NoWorkers

Rest == <<shared, merged, ret, zdiv, seqVars, workerVars>>

\* int nthreads = 0; mc_param_init(param);
args_enter ==
  /\ apc = "entry"
  /\ nthreads' = 0
  /\ param' = [param EXCEPT ![1] = mc_param_init]
  /\ apc' = "getopt"
  /\ UNCHANGED <<argv, optind, Rest>>

\* getopt returns the option c, optarg its argument.
Got(c) ==
  /\ apc = "getopt"
  /\ optind < Len(argv)
  /\ argv[optind + 1].kind = "opt"
  /\ argv[optind + 1].c = c

optarg == argv[optind + 1].arg

\* The test of case 'p' on what atoi returned.
bad_nthreads(n) == n <= 0 \/ n > MAX_MC_THREADS

case_p ==
  /\ Got("p")
  /\ \E n \in atoi(optarg) :
       /\ nthreads' = n
       /\ apc' = IF bad_nthreads(n) THEN "exited" ELSE "getopt"
  /\ optind' = optind + 1
  /\ UNCHANGED <<argv, param, Rest>>

case_t ==
  /\ Got("t")
  /\ param' = [param EXCEPT ![1].rtol = atof(optarg)]
  /\ apc' = IF FLt(atof(optarg), Zero) THEN "exited" ELSE "getopt"
  /\ optind' = optind + 1
  /\ UNCHANGED <<argv, nthreads, Rest>>

case_n ==
  /\ Got("n")
  /\ \E n \in atol(optarg) :
       /\ param' = [param EXCEPT ![1].maxtrials = n]
       /\ apc' = IF n < 1 THEN "exited" ELSE "getopt"
  /\ optind' = optind + 1
  /\ UNCHANGED <<argv, nthreads, Rest>>

case_b ==
  /\ Got("b")
  /\ \E n \in atoi(optarg) :
       /\ param' = [param EXCEPT ![1].nbatch = n]
       /\ apc' = IF n < 1 THEN "exited" ELSE "getopt"
  /\ optind' = optind + 1
  /\ UNCHANGED <<argv, nthreads, Rest>>

case_v ==
  /\ Got("v")
  /\ \E n \in atoi(optarg) : param' = [param EXCEPT ![1].verbose = n]
  /\ optind' = optind + 1
  /\ UNCHANGED <<argv, nthreads, apc, Rest>>

\* case '?': an option without its argument, or an unknown option
case_unknown ==
  /\ apc = "getopt"
  /\ optind < Len(argv)
  /\ argv[optind + 1].kind \in {"noarg", "unknown"}
  /\ apc' = "exited"
  /\ optind' = optind + 1
  /\ UNCHANGED <<argv, nthreads, param, Rest>>

\* getopt returns -1 at the end of argv or at a non-option word
args_done ==
  /\ apc = "getopt"
  /\ IF optind < Len(argv) THEN argv[optind + 1].kind = "word" ELSE TRUE
  /\ apc' = IF optind < Len(argv) THEN "exited" ELSE "returned"
  /\ UNCHANGED <<argv, optind, nthreads, param, Rest>>

NextArgs ==
  \/ args_enter
  \/ case_p
  \/ case_t
  \/ case_n
  \/ case_b
  \/ case_v
  \/ case_unknown
  \/ args_done

SpecArgs == InitArgs /\ [][NextArgs]_vars

(***************************************************************************)
(* The worker loop: each worker of a run repeats run_trials on its own     *)
(* generator, mc_result_update and is_converged under the run's lock, until *)
(* is_converged holds or a peer has raised the stop flag.                  *)
(***************************************************************************)
Workers == DOMAIN pc

NoRegs == [f |-> 1, tmp |-> mc_result_init]

InitWorkers(runs, runOf, seedOf) ==
  /\ NoArgs
  /\ shared = [r \in runs |-> mc_result_init]
  /\ merged = [r \in runs |-> <<>>]
  /\ parts = <<>> /\ todo = {}
  /\ ret = -1 /\ zdiv = FALSE
  /\ pc = [w \in DOMAIN runOf |-> "SEEDED"]
  /\ mt = [w \in DOMAIN runOf |-> 0]
  /\ batch \in {[w \in DOMAIN runOf |-> g] : g \in Garbage}
  /\ loc = [w \in DOMAIN runOf |-> run_trials_entry]
  /\ reg = [w \in DOMAIN runOf |-> NoRegs]
  /\ start = [w \in DOMAIN runOf |-> 0]
  /\ done = [w \in DOMAIN runOf |-> 0]
  /\ lock = [r \in runs |-> 0]
  /\ stop = [r \in runs |-> FALSE]
  /\ tape = [s \in {seedOf[w] : w \in DOMAIN seedOf} |-> <<>>]
  /\ run = runOf
  /\ seed = seedOf

\* One run of two workers with generators of different seeds.
InitRun ==
  /\ InitWorkers({1}, <<1, 1>>, <<1, 2>>)
  /\ param \in {<<p>> : p \in RunParams}

\* Two runs of one worker each, generators of the same seed, batch sizes 1 and b > 1.
InitGran ==
  /\ InitWorkers({1, 2}, <<1, 2>>, <<1, 1>>)
  /\ param \in {<<[p EXCEPT !.nbatch = 1], p>> : p \in {q \in RunParams : q.nbatch > 1}}

\* SEEDED -> RUNNING: the worker's generator has been created from its seed.
Seeded(w) ==
  /\ pc[w] = "SEEDED"
  /\ pc' = [pc EXCEPT ![w] = "RUNNING"]
  /\ ret' = -1
  /\ UNCHANGED <<param, shared, merged, zdiv, mt, batch, loc, reg, start, done,
                 lock, stop, tape, run, seed, argsVars, seqVars>>

\* run_trials(&mt, nbatch, &batch): entry, sum_X = sum_X2 = 0, t = 0
run_trials_enter(w) ==
  /\ pc[w] = "RUNNING"
  /\ pc' = [pc EXCEPT ![w] = "TRIALS"]
  /\ loc' = [loc EXCEPT ![w] = run_trials_entry]
  /\ start' = [start EXCEPT ![w] = mt[w]]
  /\ ret' = -1
  /\ UNCHANGED <<param, shared, merged, zdiv, mt, batch, reg, done,
                 lock, stop, tape, run, seed, argsVars, seqVars>>

\* genrand(mt): the next value of the sequence the seed determines.
genrand(w) ==
  IF mt[w] < Len(tape[seed[w]]) THEN {tape[seed[w]][mt[w] + 1]} ELSE DrawSet

\* run_trials: one iteration, X = run_trial(mt)
run_trial(w) ==
  /\ pc[w] = "TRIALS"
  /\ loc[w].t < param[run[w]].nbatch
  /\ mt[w] < MaxDraws
  /\ \E X \in genrand(w) :
       /\ tape' = [tape EXCEPT ![seed[w]] =
                     IF mt[w] < Len(@) THEN @ ELSE Append(@, X)]
       /\ loc' = [loc EXCEPT ![w] = run_trials_body(@, X)]
  /\ mt' = [mt EXCEPT ![w] = @ + 1]
  /\ ret' = -1
  /\ UNCHANGED <<param, shared, merged, zdiv, pc, batch, reg, start, done,
                 lock, stop, run, seed, argsVars, seqVars>>

\* run_trials: the loop is over, the sums and nbatch are stored to *result
run_trials_return(w) ==
  /\ pc[w] = "TRIALS"
  /\ ~(loc[w].t < param[run[w]].nbatch)
  /\ batch' = [batch EXCEPT ![w] = run_trials_exit(loc[w], param[run[w]].nbatch)]
  /\ pc' = [pc EXCEPT ![w] = "BATCH_DONE"]
  /\ ret' = -1
  /\ UNCHANGED <<param, shared, merged, zdiv, mt, loc, reg, start, done,
                 lock, stop, tape, run, seed, argsVars, seqVars>>

\* BATCH_DONE -> MERGING: the worker takes the aggregation lock of its run
\* (lock_never_held: a worker that does not wait for the lock).
lock_never_held(r) == TRUE
lock_is_free(r) == lock[r] = 0

Lock(w) ==
  /\ pc[w] = "BATCH_DONE"
  /\ lock_is_free(run[w])
  /\ lock' = [lock EXCEPT ![run[w]] = w]
  /\ pc' = [pc EXCEPT ![w] = "MERGE_LOAD"]
  /\ ret' = -1
  /\ UNCHANGED <<param, shared, merged, zdiv, mt, batch, loc, reg, start, done,
                 stop, tape, run, seed, argsVars, seqVars>>

\* mc_result_update(&shared, &batch): result->f += batch->f reads result->f ...
merge_load(w) ==
  /\ pc[w] = "MERGE_LOAD"
  /\ reg' = [reg EXCEPT ![w].tmp[Fields[reg[w].f]] = shared[run[w]][Fields[reg[w].f]]]
  /\ pc' = [pc EXCEPT ![w] = "MERGE_STORE"]
  /\ ret' = -1
  /\ UNCHANGED <<param, shared, merged, zdiv, mt, batch, loc, start, done,
                 lock, stop, tape, run, seed, argsVars, seqVars>>

\* ... and writes the sum back; after the last field the call returns.
merge_store(w) ==
  /\ pc[w] = "MERGE_STORE"
  /\ LET f == Fields[reg[w].f]
     IN shared' = [shared EXCEPT ![run[w]][f] = add_field(f, reg[w].tmp[f], batch[w])]
  /\ IF reg[w].f < Len(Fields)
     THEN /\ reg' = [reg EXCEPT ![w].f = @ + 1]
          /\ pc' = [pc EXCEPT ![w] = "MERGE_LOAD"]
          /\ UNCHANGED merged
     ELSE /\ reg' = [reg EXCEPT ![w] = NoRegs]
          /\ pc' = [pc EXCEPT ![w] = "CHECKING"]
          /\ merged' = [merged EXCEPT ![run[w]] = Append(@, batch[w])]
  /\ ret' = -1
  /\ UNCHANGED <<param, zdiv, mt, batch, loc, start, done,
                 lock, stop, tape, run, seed, argsVars, seqVars>>

\* MERGING -> CHECKING -> STOPPED or RUNNING: is_converged(&param, &shared), the
\* stop flag raised or read, and the lock released.
Check(w) ==
  /\ pc[w] = "CHECKING"
  /\ LET d == is_converged(param[run[w]], shared[run[w]])
     IN /\ done' = [done EXCEPT ![w] = d]
        /\ ret' = d
        /\ stop' = [stop EXCEPT ![run[w]] = (@ \/ d = 1)]
        /\ pc' = [pc EXCEPT ![w] = IF d = 1 \/ stop[run[w]] THEN "STOPPED"
                                   ELSE "RUNNING"]
  /\ zdiv' = (zdiv \/ divides_by_zero(shared[run[w]]))
  /\ lock' = [lock EXCEPT ![run[w]] = 0]
  /\ UNCHANGED <<param, shared, merged, mt, batch, loc, reg, start,
                 tape, run, seed, argsVars, seqVars>>

NextRun ==
  \/ \E w \in Workers : Seeded(w)
  \/ \E w \in Workers : run_trials_enter(w)
  \/ \E w \in Workers : run_trial(w)
  \/ \E w \in Workers : run_trials_return(w)
  \/ \E w \in Workers : Lock(w)
  \/ \E w \in Workers : merge_load(w)
  \/ \E w \in Workers : merge_store(w)
  \/ \E w \in Workers : Check(w)

SpecRun == InitRun /\ [][NextRun]_vars

SpecGran == InitGran /\ [][NextRun]_vars

(***************************************************************************)
(* Properties                                                              *)
(***************************************************************************)
\* The double sum of field f over the results of bs, taken left to right from 0.
RECURSIVE SumF(_, _)
SumF(bs, f) ==
  IF bs = <<>> THEN Zero ELSE FAdd(SumF(SubSeq(bs, 1, Len(bs) - 1), f), bs[Len(bs)][f])

\* The integer sum of the trial counts of bs.
RECURSIVE SumN(_)
SumN(bs) == IF bs = <<>> THEN 0 ELSE bs[1].ntrials + SumN(Tail(bs))

\* The element-wise sum of the results bs, in the order of bs.
SumOf(bs) == Result(SumF(bs, "sum_X"), SumF(bs, "sum_X2"), SumN(bs))

\* The smallest exponent among the finite doubles of S (0 if there is none).
RECURSIVE MinExp(_)
MinExp(S) ==
  IF S = {} THEN 0
  ELSE LET a == CHOOSE x \in S : TRUE IN Min(a.e, MinExp(S \ {a}))

\* The exact sum of field f over bs, as a multiple of 2^e0.
RECURSIVE ExactSum(_, _, _)
ExactSum(bs, f, e0) ==
  IF bs = <<>> THEN 0 ELSE Scaled(bs[1][f], e0) + ExactSum(Tail(bs), f, e0)

\* a and b are two double sums of the same n non-negative terms bs[i][f], added
\* in different orders: each is within gamma(n-1) = (n-1)u / (1 - (n-1)u) of the
\* exact sum s, u = 2^-Precision, so |a - b| * (2^Precision - (n-1)) <= 2 (n-1) s.
WithinRounding(a, b, bs, f) ==
  LET n == Len(bs)
      e0 == MinExp({a, b} \cup {bs[i][f] : i \in DOMAIN bs})
  IN /\ a.k = "num" /\ b.k = "num"
     /\ n - 1 < Pow2(Precision)
     /\ Abs(Scaled(a, e0) - Scaled(b, e0)) * (Pow2(Precision) - (n - 1))
          <= 2 * (n - 1) * ExactSum(bs, f, e0)

\* C1: from a zeroed SharedResult, after any sequence of mc_result_update calls
\* the shared sum_X, sum_X2 and ntrials are the element-wise sums (the sums of
\* doubles taken in merge order) of the PartialResults merged so far, and no
\* merge modifies its partial argument.
C1_SharedIsSumOfMerged ==
  /\ [](shared[1] = SumOf(merged[1]))
  /\ [][parts' = parts]_vars

C1_Witness == Len(merged[1]) = MaxParts /\ shared[1].sum_X # Zero

\* The quotient of the claim: ((sum_X2/n - (sum_X/n)^2) / n) / (sum_X/n)^2.
RelVarOfMean(r) ==
  LET n == FromInt(r.ntrials)
      mean == FDiv(r.sum_X, n)
  IN FDiv(FDiv(FSub(FDiv(r.sum_X2, n), FMul(mean, mean)), n), FMul(mean, mean))

\* C3: for a SharedResult with ntrials > 0 and a nonzero mean, is_converged
\* returns true exactly when the relative variance of the mean is below rtol^2
\* or ntrials > maxtrials (strictly), and it changes neither param nor result.
C3_ConvergedIff ==
  /\ [](ret # -1 /\ shared[1].ntrials > 0 /\ shared[1].sum_X # Zero
          => (ret = 1 <=> \/ FLt(RelVarOfMean(shared[1]),
                                 FMul(param[1].rtol, param[1].rtol))
                          \/ shared[1].ntrials > param[1].maxtrials))
  /\ [][ret' # -1 => UNCHANGED <<param, shared>>]_vars

C3_Witness ==
  /\ ret = 0
  /\ shared[1].ntrials = param[1].maxtrials
  /\ shared[1].sum_X # Zero

\* C5 as claimed: merging a collection in any order gives the very same final
\* (sum_X, sum_X2, ntrials) as merging it in the order of the collection.
C5_SameInAnyOrder == todo = {} => shared[1] = SumOf(parts)

\* C5 as amended: in any order the final ntrials is the same, and sum_X and
\* sum_X2 agree up to the rounding of the additions.
C5_SameUpToRounding ==
  todo = {} =>
    /\ shared[1].ntrials = SumOf(parts).ntrials
    /\ WithinRounding(shared[1].sum_X, SumOf(parts).sum_X, parts, "sum_X")
    /\ WithinRounding(shared[1].sum_X2, SumOf(parts).sum_X2, parts, "sum_X2")

C5_Witness == todo = {} /\ Len(parts) = MaxParts /\ shared[1] # SumOf(parts)

\* The workers of run r, and whether they have all stopped.
WorkersOf(r) == {w \in Workers : run[w] = r}

Stopped(r) == \A w \in WorkersOf(r) : pc[w] = "STOPPED"

\* C2: under the aggregation lock the merges of concurrent workers are atomic:
\* at most one worker of a run is inside mc_result_update or is_converged, and
\* whenever no merge is in flight (the lock is free, or its holder has finished
\* merging and is about to read the SharedResult in is_converged) the shared
\* fields are the sums of all the batches merged: no update is lost and no
\* partially applied merge is observed.
C2_MergeIsAtomic ==
  \A r \in DOMAIN shared :
    /\ Cardinality({w \in WorkersOf(r) :
                      pc[w] \in {"MERGE_LOAD", "MERGE_STORE", "CHECKING"}}) <= 1
    /\ (lock[r] = 0 \/ pc[lock[r]] = "CHECKING") => shared[r] = SumOf(merged[r])

C2_Witness ==
  /\ pc[1] = "CHECKING" /\ pc[2] = "BATCH_DONE"
  /\ Len(merged[1]) >= 3
  /\ \E i, j \in DOMAIN merged[1] : merged[1][i] # merged[1][j]

\* C4: with tolerance 0 only the budget stops a run: is_converged never returns
\* true while the shared count is at most maxtrials, and when every worker has
\* stopped the count exceeds maxtrials.
C4_BudgetTermination ==
  param[1].rtol = Zero =>
    /\ ret = 1 => shared[1].ntrials > param[1].maxtrials
    /\ Stopped(1) => shared[1].ntrials > param[1].maxtrials

\* The double sums run_trials is to compute over the draws ds.
RECURSIVE DrawSum(_)
DrawSum(ds) ==
  IF ds = <<>> THEN Zero ELSE FAdd(DrawSum(SubSeq(ds, 1, Len(ds) - 1)), ds[Len(ds)])

RECURSIVE DrawSumSq(_)
DrawSumSq(ds) ==
  IF ds = <<>> THEN Zero
  ELSE FAdd(DrawSumSq(SubSeq(ds, 1, Len(ds) - 1)), FMul(ds[Len(ds)], ds[Len(ds)]))

BatchOf(ds) == Result(DrawSum(ds), DrawSumSq(ds), Len(ds))

\* A step of worker w inside run_trials.
InRunTrials(w) ==
  /\ pc[w] \in {"RUNNING", "TRIALS"}
  /\ <<pc[w], mt[w], loc[w], batch[w]>>' # <<pc[w], mt[w], loc[w], batch[w]>>

\* C8: when run_trials returns, the stream has advanced by exactly nbatch draws
\* and the result holds the sum of those draws, the sum of their squares and
\* nbatch, whatever it held before; the call changes nothing but that stream,
\* its own locals and that result.
C8_RunTrialsEffect ==
  /\ [](\A w \in Workers :
          pc[w] \in {"BATCH_DONE", "MERGE_LOAD", "MERGE_STORE", "CHECKING", "STOPPED"}
            => /\ mt[w] = start[w] + param[run[w]].nbatch
               /\ batch[w] = BatchOf(SubSeq(tape[seed[w]], start[w] + 1, mt[w]))
               /\ batch[w].ntrials = param[run[w]].nbatch)
  /\ [][\A w \in Workers :
          InRunTrials(w) =>
            /\ UNCHANGED <<shared, merged, lock, stop, param, done, reg>>
            /\ \A v \in Workers \ {w} :
                 UNCHANGED <<pc[v], mt[v], loc[v], batch[v]>>]_vars

C8_Witness ==
  /\ pc[1] = "BATCH_DONE"
  /\ param[1].nbatch = 2
  /\ start[1] = 2
  /\ batch[1].sum_X2 # Zero

\* C9: is_converged never divides by zero (it is never called with ntrials = 0,
\* and a zero mean is handled by a fallback rule instead of the quotient).
C9_NoDivisionByZero ==
  /\ ~zdiv
  /\ \A w \in Workers : pc[w] = "CHECKING" => shared[run[w]].ntrials > 0

\* The batches of size b of the draws ds, as run_trials is to compute them.
RECURSIVE BatchesOf(_, _)
BatchesOf(ds, b) ==
  IF Len(ds) < b THEN <<>>
  ELSE <<BatchOf(SubSeq(ds, 1, b))>> \o BatchesOf(SubSeq(ds, b + 1, Len(ds)), b)

\* The worker of a run of one worker, and whether it has no batch under way.
WorkerOf(r) == CHOOSE w \in Workers : run[w] = r

Quiet(r) == pc[WorkerOf(r)] \in {"SEEDED", "RUNNING", "CHECKING", "STOPPED"}

Drawn(r) == SubSeq(tape[seed[WorkerOf(r)]], 1, mt[WorkerOf(r)])

\* C10 as claimed: a run with batch size 1 and a run with batch size b > 1 on
\* the same sequence of draws end with the same SharedResult.
C10_SameFinalResult == Stopped(1) /\ Stopped(2) => shared[1] = shared[2]

\* C10 as amended: each run's SharedResult is the merge of the batch sums of
\* the draws it has consumed, a prefix of the common sequence; two runs that
\* have merged the same number of trials agree in ntrials and, up to the
\* rounding of the additions, in sum_X and sum_X2.
C10_SameDrawsUpToRounding ==
  /\ \A r \in DOMAIN shared :
       Quiet(r) => shared[r] = SumOf(BatchesOf(Drawn(r), param[r].nbatch))
  /\ Quiet(1) /\ Quiet(2) /\ mt[WorkerOf(1)] = mt[WorkerOf(2)] =>
       LET terms == [i \in DOMAIN Drawn(1) |->
                       Result(Drawn(1)[i], FMul(Drawn(1)[i], Drawn(1)[i]), 1)]
       IN /\ shared[1].ntrials = shared[2].ntrials
          /\ WithinRounding(shared[1].sum_X, shared[2].sum_X, terms, "sum_X")
          /\ WithinRounding(shared[1].sum_X2, shared[2].sum_X2, terms, "sum_X2")

C10_Witness ==
  /\ Stopped(1) /\ Stopped(2)
  /\ mt[WorkerOf(1)] = mt[WorkerOf(2)]
  /\ shared[1].sum_X # Zero

\* The number a decimal argument denotes, capped at INT_MAX.
Requested(s) ==
  LET r == ParseDigits(Unsigned(s), 0, FALSE, 0)
      v == IF r.ovf THEN INT_MAX ELSE r.v
  IN IF Negative(s) THEN -v ELSE v

\* C6: once process_args has read a -p option whose requested count is above
\* MAX_MC_THREADS or not positive, the program has exited; and process_args
\* never returns a worker count above MAX_MC_THREADS.
C6_CapEnforced ==
  /\ \A i \in 1..optind :
       /\ argv[i].kind = "opt" /\ argv[i].c = "p"
       /\ Requested(argv[i].arg) <= 0 \/ Requested(argv[i].arg) > MAX_MC_THREADS
       => apc = "exited"
  /\ apc = "returned" => nthreads <= MAX_MC_THREADS

\* C7: whenever process_args returns, rtol > 0, maxtrials >= 1, nbatch >= 1 and
\* the returned worker count is in [1, MAX_MC_THREADS].
C7_ParametersValidated ==
  apc = "returned" =>
    /\ FLt(Zero, param[1].rtol)
    /\ param[1].maxtrials >= 1
    /\ param[1].nbatch >= 1
    /\ nthreads \in 1..MAX_MC_THREADS

====
